---- MODULE Spec2Model ----
(***************************************************************************)
(* Model of the customs-declaration backend (src/server.js):               *)
(*   - the monetary allocator (allocateProportionalToCents,                *)
(*     divideEquallyInCents), as pure operators;                           *)
(*   - the importer/exporter reconciliation done by POST /declarations     *)
(*     and PUT /declarations/:id, as actions on the two lowdb stores;      *)
(*   - the items of a declaration (create, full update, PUT .../tariffs)   *)
(*     and the two deletes.                                                *)
(*                                                                         *)
(* Numbers.  A JavaScript number is a record [nan, v]: NaN, or the integer *)
(* v.  A monetary amount is held in half-cents, so that                    *)
(* Math.round(Number(x) * 100) has a half to round; a weight is held in    *)
(* whole units (the allocation is scale-invariant in the weights).         *)
(*                                                                         *)
(* Floating point.  (w / weightSum) * totalCents is computed in IEEE       *)
(* doubles.  Its rounding error is far smaller than the gap 1/weightSum    *)
(* between distinct exact values, so it is modelled as a perturbation      *)
(* fpErr[w] \in {-1, 0, 1} (below, exact, above the real value) that       *)
(* depends on the weight only, total and weight sum being fixed during one *)
(* call.  A share whose real value is an integer and which is computed     *)
(* below it has floor one less and a fractional part just under 1          *)
(* (0.57 * 100 = 56.99999999999999).                                       *)
(*                                                                         *)
(* Strings.  A decimal string is the sequence of its characters.           *)
(***************************************************************************)
EXTENDS Integers, Sequences, FiniteSets, TLC

VARIABLES
    totalAmount,    \* allocator input: the total (half-cents, or NaN)
    weights,        \* allocator input: the weights, a sequence of numbers
    count,          \* allocator input: the count of divideEquallyInCents
    fpErr,          \* rounding direction of the share of each weight value
    called,         \* "none", "proportional" or "equal": the function that ran
    result,         \* what the call returned: [threw, shares]
    users,          \* usersDb.data.users, as persisted
    exporters,      \* db.data.exporters, as persisted
    declarations,   \* db.data.declarations, as persisted
    req,            \* the request whose response is in flight, or NoRequest
    res,            \* the response in flight
    before,         \* the stores as that request found them
    served,         \* the number of requests handled so far
    masterBill,     \* assembler input: the master-bill context
    document,       \* what structureDataForXml returned: [threw, items, ...]
    memory,         \* db.data and usersDb.data, the objects in memory
    tasks           \* the handlers in progress, each at an await point

allocVars == <<totalAmount, weights, count, fpErr, called, result>>

serverVars == <<users, exporters, declarations, req, res, before, served>>

xmlVars == <<masterBill, document>>

concVars == <<memory, tasks>>

restVars == <<xmlVars, concVars>>

vars == <<allocVars, serverVars, restVars>>

\* ------------------------------------------------------------------ bounds
MaxHalfCents == 7
MaxWeight == 4
MaxLen == 3
MaxRequests == 3
MaxItemRequests == 2
MaxItems == 2
MaxConsolidated == 2
MaxStored == 3

\* ----------------------------------------------------------------- numbers
Num(n) == [nan |-> FALSE, v |-> n]

NaN == [nan |-> TRUE, v |-> 0]

RECURSIVE SumSeq(_)
SumSeq(s) == IF s = <<>> THEN 0 ELSE Head(s) + SumSeq(Tail(s))

Abs(n) == IF n < 0 THEN -n ELSE n

\* Math.round(Number(totalAmount) * 100): halves round towards +Infinity.
RoundToCents(amount) ==
    IF amount.nan THEN NaN ELSE Num((amount.v + 1) \div 2)

\* a % b of JavaScript for b > 0: the result has the sign of the dividend.
JsRemainder(a, b) == IF a >= 0 THEN a % b ELSE -((-a) % b)

\* --------------------------------------------------------- Number.toFixed(2)
DigitChar == <<"0", "1", "2", "3", "4", "5", "6", "7", "8", "9">>

RECURSIVE DecimalDigits(_)
DecimalDigits(n) ==
    IF n < 10 THEN <<DigitChar[n + 1]>>
    ELSE DecimalDigits(n \div 10) \o <<DigitChar[(n % 10) + 1]>>

\* (c / 100).toFixed(2) for a number of cents c.
ToFixed2(c) ==
    IF c.nan THEN <<"N", "a", "N">>
    ELSE (IF c.v < 0 THEN <<"-">> ELSE <<>>)
         \o DecimalDigits(Abs(c.v) \div 100)
         \o <<".", DigitChar[((Abs(c.v) % 100) \div 10) + 1],
                   DigitChar[(Abs(c.v) % 10) + 1]>>

\* ------------------------------------------------ allocateProportionalToCents
\* weights.map(w => Number(w) || 0)
WeightNums(ws) == [i \in DOMAIN ws |-> IF ws[i].nan THEN 0 ELSE ws[i].v]

\* The rounding direction of share i.  A zero weight gives exactly 0.
ShareErr(wn, err, i) == IF wn[i] = 0 THEN 0 ELSE err[wn[i]]

\* Is share i, an integer in real arithmetic, computed just below it?
ComputedLow(wn, weightSum, totalCents, err, i) ==
    /\ (wn[i] * totalCents) % weightSum = 0
    /\ ShareErr(wn, err, i) = -1

\* exactShares.map(s => Math.floor(s))
FloorShares(wn, weightSum, totalCents, err) ==
    [i \in DOMAIN wn |->
        ((wn[i] * totalCents) \div weightSum)
        - (IF ComputedLow(wn, weightSum, totalCents, err, i) THEN 1 ELSE 0)]

\* frac: s - floorShares[i], as an integer that orders the computed
\* fractions: 3 * (numerator over weightSum) + rounding direction.
Fractions(wn, weightSum, totalCents, err) ==
    [i \in DOMAIN wn |->
        [i |-> i,
         frac |-> IF ComputedLow(wn, weightSum, totalCents, err, i)
                  THEN 3 * weightSum - 1
                  ELSE 3 * ((wn[i] * totalCents) % weightSum)
                       + ShareErr(wn, err, i)]]

\* One step of the stable sort: e goes after every element that does not
\* compare after it under (a, b) => b.frac - a.frac.
RECURSIVE InsertByFracDesc(_, _)
InsertByFracDesc(sorted, e) ==
    IF sorted = <<>> THEN <<e>>
    ELSE IF Head(sorted).frac >= e.frac
         THEN <<Head(sorted)>> \o InsertByFracDesc(Tail(sorted), e)
         ELSE <<e>> \o sorted

\* fractions.sort((a, b) => b.frac - a.frac): Array.prototype.sort is stable.
RECURSIVE SortByFracDesc(_)
SortByFracDesc(fr) ==
    IF fr = <<>> THEN <<>>
    ELSE InsertByFracDesc(SortByFracDesc(SubSeq(fr, 1, Len(fr) - 1)), fr[Len(fr)])

\* The loop with k < remainder - 1: the last leftover cent is never given.
RECURSIVE DistributeRemainderStopsEarly(_, _, _)
DistributeRemainderStopsEarly(floors, sorted, remainder) ==
    IF remainder <= 1 THEN floors
    ELSE DistributeRemainderStopsEarly(
             [floors EXCEPT ![Head(sorted).i] = @ + 1], Tail(sorted), remainder - 1)

\* for (let k = 0; k < remainder; k++) floorShares[fractions[k].i] += 1
RECURSIVE DistributeRemainder(_, _, _)
DistributeRemainder(floors, sorted, remainder) ==
    IF remainder <= 0 THEN floors
    ELSE DistributeRemainder(
             [floors EXCEPT ![Head(sorted).i] = @ + 1], Tail(sorted), remainder - 1)

Returned(shares) == [threw |-> FALSE, shares |-> shares]

\* fractions[k] is undefined: reading .i of it throws a TypeError.
Thrown == [threw |-> TRUE, shares |-> <<>>]

\* totalCents === 0 only: the test of the weight sum forgotten.
NothingToDistributeTotalOnly(totalCents, weightSum) ==
    ~totalCents.nan /\ totalCents.v = 0

\* if (totalCents === 0 || weightSum === 0); NaN === 0 is false.
NothingToDistribute(totalCents, weightSum) ==
    (~totalCents.nan /\ totalCents.v = 0) \/ weightSum = 0

allocateProportionalToCents(total, ws, err) ==
    LET totalCents == RoundToCents(total)
        weightNums == WeightNums(ws)
        weightSum == SumSeq(weightNums)
    IN  IF NothingToDistribute(totalCents, weightSum)
        THEN Returned([i \in DOMAIN ws |-> ToFixed2(Num(0))])
        ELSE IF totalCents.nan \/ weightSum = 0
        THEN \* NaN * x, and 0 / 0, are NaN: every share ends as NaN
             Returned([i \in DOMAIN ws |-> ToFixed2(NaN)])
        ELSE LET floorShares == FloorShares(weightNums, weightSum, totalCents.v, err)
                 fractions == Fractions(weightNums, weightSum, totalCents.v, err)
                 assigned == SumSeq(floorShares)
                 remainder == totalCents.v - assigned
             IN  IF remainder > Len(ws) THEN Thrown
                 ELSE Returned(
                     [i \in DOMAIN ws |->
                         ToFixed2(Num(DistributeRemainder(
                             floorShares, SortByFracDesc(fractions), remainder)[i]))])

\* ------------------------------------------------------- divideEquallyInCents
divideEquallyInCents(total, n) ==
    LET totalCents == RoundToCents(total)
    IN  IF n = 0 THEN Returned(<<>>)
        ELSE IF totalCents.nan
        THEN Returned([i \in 1..n |-> ToFixed2(NaN)])
        ELSE LET perItem == totalCents.v \div n
                 remainder == JsRemainder(totalCents.v, n)
             IN  Returned(
                     [i \in 1..n |->
                         ToFixed2(Num(perItem + (IF i <= remainder THEN 1 ELSE 0)))])

\* ============================================================ the server
\* ------------------------------------------------------- JavaScript values
Undefined == "<undefined>"

Null == "<null>"

\* The truthiness of a string-or-missing value.
Truthy(x) == x \notin {Undefined, Null, ""}

\* x || ''
OrEmpty(x) == IF Truthy(x) THEN x ELSE ""

\* uuidv4(): an identifier never returned before.  Fresh identifiers are
\* named by the kind of record they are made for and its ordinal.
Uuid(kind, n) == kind \o ToString(n)

\* The index of the first element of seq satisfying Test, 0 when none does.
FirstIndex(seq, Test(_)) ==
    IF \E k \in DOMAIN seq : Test(seq[k])
    THEN CHOOSE k \in DOMAIN seq :
             Test(seq[k]) /\ \A j \in 1..(k - 1) : ~Test(seq[j])
    ELSE 0

\* A body without the importer (exporter) key reads it as undefined:
\* importer?.id is then undefined, importer.name throws.
NoImporter ==
    [defined |-> FALSE, id |-> Undefined, name |-> Undefined, number |-> Undefined]

NoExporter ==
    [defined |-> FALSE, id |-> Undefined, name |-> Undefined,
     number |-> Undefined, address |-> Undefined]

\* A numeric field of a payload (a cost, a valuation amount): missing (or
\* another falsy value), a value that does not parse ("abc"), or a number.
\* A valuation amount is held in half-cents, a cost in whole units.
Missing == [kind |-> "missing", v |-> 0]

Invalid == [kind |-> "invalid", v |-> 0]

Amount(n) == [kind |-> "number", v |-> n]

\* parseFloat(x || 0)
ParseFloatOrZero(x) ==
    IF x.kind = "invalid" THEN NaN
    ELSE IF x.kind = "missing" THEN Num(0)
    ELSE Num(x.v)

\* A body without a valuation block.
NoValuation ==
    [defined |-> FALSE, netCost |-> Missing, netFreight |-> Missing,
     netInsurance |-> Missing]

\* A list-valued field of a body (tariffs, items, ids): missing, a value that
\* is not an array ("other"), or an array with its elements.
NoList == [kind |-> "missing", elems |-> <<>>]

NotAnArray == [kind |-> "other", elems |-> <<>>]

ArrayOf(elems) == [kind |-> "array", elems |-> elems]

\* Array.isArray(x); a missing value is not an array, and every array is truthy.
IsArray(x) == x.kind = "array"

\* ------------------------------------------- the items of a declaration
\* The rounding directions of the shares the handlers compute.  For the costs
\* and amounts the requests below carry (costs up to 3, at most 3 items, at
\* most 4 cents) the double arithmetic of allocateProportionalToCents gives
\* the exact floors and the exact order of the fractions.
ExactRounding == [w \in 1..MaxWeight |-> 0]

\* netCost > 0; NaN > 0 is false.
GreaterThanZero(x) == ~x.nan /\ x.v > 0

\* uuidv4() for item idx of the nth request.
ItemUuid(nth, idx) == Uuid("t" \o ToString(nth) \o "-", idx)

\* Every tariff charged as if netCost > 0.
AllocationAlwaysProportional(netCost, total, tariffs) ==
    allocateProportionalToCents(
        total, [idx \in DOMAIN tariffs |-> ParseFloatOrZero(tariffs[idx].cost)],
        ExactRounding)

\* The allocation of one total over the tariffs, by the valuation's netCost.
Allocation(netCost, total, tariffs) ==
    IF GreaterThanZero(netCost)
    THEN allocateProportionalToCents(
             total, [idx \in DOMAIN tariffs |-> ParseFloatOrZero(tariffs[idx].cost)],
             ExactRounding)
    ELSE divideEquallyInCents(total, Len(tariffs))

\* tariffs.map((tariff, idx) => ({...tariff, id: tariff.id || uuidv4(),
\*                                freight: freightAlloc[idx],
\*                                insurance: insuranceAlloc[idx]}))
\* with the allocations of netFreight and netInsurance.  A stored item that
\* is processed again carries freight and insurance, which are overwritten.
ProcessedTariffs(tariffs, valuation, nth) ==
    LET netFreight == ParseFloatOrZero(valuation.netFreight)
        netCost == ParseFloatOrZero(valuation.netCost)
        netInsurance == ParseFloatOrZero(valuation.netInsurance)
        freightAlloc == Allocation(netCost, netFreight, tariffs)
        insuranceAlloc == Allocation(netCost, netInsurance, tariffs)
    IN  IF freightAlloc.threw \/ insuranceAlloc.threw
        THEN [threw |-> TRUE, items |-> <<>>]
        ELSE [threw |-> FALSE,
              items |->
                  [idx \in DOMAIN tariffs |->
                      [id |-> IF Truthy(tariffs[idx].id)
                              THEN tariffs[idx].id ELSE ItemUuid(nth, idx),
                       cost |-> tariffs[idx].cost,
                       note |-> tariffs[idx].note,
                       freight |-> freightAlloc.shares[idx],
                       insurance |-> insuranceAlloc.shares[idx]]]]

\* ------------------------------------------ POST /declarations: the importer
\* The importer found by tin when the payload has no id: no new user.
PostImporterMatchByTin(us, importer) ==
    LET byId == FirstIndex(us, LAMBDA u : u.id = importer.id)
        byTin == FirstIndex(us, LAMBDA u : u.tin = importer.number)
    IN  IF Truthy(importer.id)
        THEN IF byId # 0
             THEN [threw |-> FALSE,
                   users |-> [us EXCEPT ![byId].tin = importer.number],
                   importerId |-> us[byId].id,
                   importer |-> [importer EXCEPT !.id = us[byId].id]]
             ELSE [threw |-> FALSE, users |-> us,
                   importerId |-> Undefined, importer |-> importer]
        ELSE IF ~importer.defined
        THEN [threw |-> TRUE, users |-> us,
              importerId |-> Undefined, importer |-> importer]
        ELSE IF byTin # 0
        THEN [threw |-> FALSE, users |-> us,
              importerId |-> us[byTin].id,
              importer |-> [importer EXCEPT !.id = us[byTin].id]]
        ELSE LET newImporter == [id |-> Uuid("u", Len(us) + 1),
                                 name |-> OrEmpty(importer.name),
                                 tin |-> importer.number]
             IN  [threw |-> FALSE,
                  users |-> Append(us, newImporter),
                  importerId |-> newImporter.id,
                  importer |-> [importer EXCEPT !.id = newImporter.id]]

PostImporter(us, importer) ==
    LET k == FirstIndex(us, LAMBDA u : u.id = importer.id)
    IN  IF Truthy(importer.id)
        THEN IF k # 0
             THEN \* existingUser.tin = importer.number
                  [threw |-> FALSE,
                   users |-> [us EXCEPT ![k].tin = importer.number],
                   importerId |-> us[k].id,
                   importer |-> [importer EXCEPT !.id = us[k].id]]
             ELSE \* no user has that id: nothing is done, importerId stays undefined
                  [threw |-> FALSE, users |-> us,
                   importerId |-> Undefined, importer |-> importer]
        ELSE IF ~importer.defined
        THEN \* importer.name of undefined: TypeError
             [threw |-> TRUE, users |-> us,
              importerId |-> Undefined, importer |-> importer]
        ELSE LET newImporter == [id |-> Uuid("u", Len(us) + 1),
                                 name |-> OrEmpty(importer.name),
                                 tin |-> importer.number]
             IN  [threw |-> FALSE,
                  users |-> Append(us, newImporter),
                  importerId |-> newImporter.id,
                  importer |-> [importer EXCEPT !.id = newImporter.id]]

\* ------------------------------------------ POST /declarations: the exporter
NewExporter(id, exporter, tin, uid) ==
    [id |-> id,
     name |-> OrEmpty(exporter.name),
     tin |-> tin,
     address |-> OrEmpty(exporter.address),
     uid |-> uid]

\* The exporter never looked up by tin: a new record every time.
PostExporterNoReuse(exs, exporter, importerId) ==
    IF Truthy(importerId) /\ exporter.defined
    THEN LET newExporter ==
                 NewExporter(Uuid("x", Len(exs) + 1), exporter,
                             OrEmpty(exporter.number), importerId)
         IN  [exporters |-> Append(exs, newExporter),
              exporter |-> [exporter EXCEPT !.id = newExporter.id]]
    ELSE [exporters |-> exs, exporter |-> exporter]

PostExporter(exs, exporter, importerId) ==
    IF Truthy(importerId) /\ exporter.defined
    THEN IF Truthy(exporter.number)
         THEN LET k == FirstIndex(exs,
                           LAMBDA e : e.tin = exporter.number /\ e.uid = importerId)
              IN  IF k # 0
                  THEN \* existingByTin.name = exporter.name || existingByTin.name || ''
                       [exporters |->
                            [exs EXCEPT
                                ![k].name = IF Truthy(exporter.name)
                                            THEN exporter.name ELSE OrEmpty(@),
                                ![k].address = IF Truthy(exporter.address)
                                               THEN exporter.address ELSE OrEmpty(@)],
                        exporter |-> [exporter EXCEPT !.id = exs[k].id]]
                  ELSE LET newExporter ==
                               NewExporter(Uuid("x", Len(exs) + 1), exporter,
                                           OrEmpty(exporter.number), importerId)
                       IN  [exporters |-> Append(exs, newExporter),
                            exporter |-> [exporter EXCEPT !.id = newExporter.id]]
         ELSE \* no TIN: always a new exporter record linked to the importer
              LET newExporter ==
                      NewExporter(Uuid("x", Len(exs) + 1), exporter, "", importerId)
              IN  [exporters |-> Append(exs, newExporter),
                   exporter |-> [exporter EXCEPT !.id = newExporter.id]]
    ELSE [exporters |-> exs, exporter |-> exporter]

\* ------------------------------------------------ POST /declarations, whole
\* The embedded reference of a stored declaration.
Reference(party) == [defined |-> party.defined, id |-> party.id]

Outcome(status, us, exs, decls) ==
    [status |-> status, users |-> us, exporters |-> exs, declarations |-> decls,
     deletedCount |-> 0]

\* The missing Declaration reported as a generic failure.
NotFoundAsFailure(us, exs, decls) == Outcome(500, us, exs, decls)

\* return res.status(404).json({ error: 'Declaration not found.' })
NotFound(us, exs, decls) == Outcome(404, us, exs, decls)

PostDeclarations(us, exs, decls, body, nth) ==
    LET imp == PostImporter(us, body.importer)
        ex == PostExporter(exs, body.exporter, imp.importerId)
        \* if (tariffs && Array.isArray(tariffs) && tariffs.length > 0)
        provided == IsArray(body.tariffs) /\ Len(body.tariffs.elems) > 0
        processedTariffs == ProcessedTariffs(body.tariffs.elems, body.valuation, nth)
        newDeclaration == [id |-> Uuid("d", nth),
                           importer |-> Reference(imp.importer),
                           exporter |-> Reference(ex.exporter),
                           valuation |-> body.valuation,
                           items |-> IF provided THEN processedTariffs.items
                                     ELSE <<>>]
    IN  IF imp.threw
        THEN Outcome(500, us, exs, decls)
        ELSE IF provided /\ processedTariffs.threw
        THEN \* the users were written at line 130 or 144, a reused exporter
             \* at line 161; a new exporter was pushed but never written
             Outcome(500, imp.users,
                     IF Len(ex.exporters) = Len(exs) THEN ex.exporters ELSE exs,
                     decls)
        ELSE Outcome(201, imp.users, ex.exporters, Append(decls, newDeclaration))

\* --------------------------------------- PUT /declarations/:id: the importer
PutImporter(us, importer) ==
    LET k == FirstIndex(us, LAMBDA u : u.id = importer.id)
    IN  IF Truthy(importer.id)
        THEN IF k # 0
             THEN [threw |-> FALSE,
                   users |-> [us EXCEPT ![k].tin = importer.number],
                   importerId |-> us[k].id,
                   importer |-> [importer EXCEPT !.id = us[k].id]]
             ELSE [threw |-> FALSE, users |-> us,
                   importerId |-> Undefined, importer |-> importer]
        ELSE IF ~importer.defined
        THEN [threw |-> TRUE, users |-> us,
              importerId |-> Undefined, importer |-> importer]
        ELSE LET newImporter == [id |-> Uuid("u", Len(us) + 1),
                                 name |-> OrEmpty(importer.name),
                                 tin |-> importer.number]
             IN  [threw |-> FALSE,
                  users |-> Append(us, newImporter),
                  importerId |-> newImporter.id,
                  importer |-> [importer EXCEPT !.id = newImporter.id]]

\* --------------------------------------- PUT /declarations/:id: the exporter
\* existing.field = incoming, whatever incoming is.
OverwriteAlways(existing, incoming) == incoming

\* if (typeof incoming === 'string') existing.field = incoming
Overwrite(existing, incoming) == IF incoming # Undefined THEN incoming ELSE existing

\* importerId || null
OrNull(x) == IF Truthy(x) THEN x ELSE Null

PutExporter(exs, exporter, importerId) ==
    IF Truthy(exporter.id) \/ Truthy(exporter.name)
    THEN IF Truthy(exporter.id)
         THEN LET k == FirstIndex(exs, LAMBDA e : e.id = exporter.id)
              IN  IF k # 0
                  THEN [exporters |->
                            [exs EXCEPT
                                ![k].uid = IF ~Truthy(@) /\ Truthy(importerId)
                                           THEN importerId ELSE @,
                                ![k].name = Overwrite(@, exporter.name),
                                ![k].tin = Overwrite(@, exporter.number),
                                ![k].address = Overwrite(@, exporter.address)],
                        exporter |-> [exporter EXCEPT !.id = exs[k].id]]
                  ELSE \* a new exporter under the provided id
                       [exporters |->
                            Append(exs, NewExporter(exporter.id, exporter,
                                                    OrEmpty(exporter.number),
                                                    OrNull(importerId))),
                        exporter |-> exporter]
         ELSE LET newExporter ==
                      NewExporter(Uuid("x", Len(exs) + 1), exporter,
                                  OrEmpty(exporter.number), OrNull(importerId))
              IN  [exporters |-> Append(exs, newExporter),
                   exporter |-> [exporter EXCEPT !.id = newExporter.id]]
    ELSE [exporters |-> exs, exporter |-> exporter]

\* ---------------------------------------------- PUT /declarations/:id, whole
\* The items and the valuation a stored declaration is read with.
\* The update uses the stored valuation in preference to the request's.
PutItemsStoredValuationFirst(stored, body, nth) ==
    LET existingItems == stored.items
        incomingTariffs == IF IsArray(body.items) THEN body.items.elems
                           ELSE existingItems
        declarationValuation == IF stored.valuation.defined THEN stored.valuation
                                ELSE body.valuation
    IN  IF Len(incomingTariffs) > 0
        THEN ProcessedTariffs(incomingTariffs, declarationValuation, nth)
        ELSE [threw |-> FALSE, items |-> existingItems]

\* lines 344-385: the items of the updated declaration.
PutItems(stored, body, nth) ==
    LET existingItems == stored.items
        \* Array.isArray(updatedData.items) ? updatedData.items : existingItems
        incomingTariffs == IF IsArray(body.items) THEN body.items.elems
                           ELSE existingItems
        \* updatedData.valuation || stored valuation || {}
        declarationValuation == IF body.valuation.defined THEN body.valuation
                                ELSE stored.valuation
    IN  IF Len(incomingTariffs) > 0
        THEN ProcessedTariffs(incomingTariffs, declarationValuation, nth)
        ELSE \* no tariffs at all: keep existing items as-is
             [threw |-> FALSE, items |-> existingItems]

PutDeclaration(us, exs, decls, id, body, nth) ==
    LET declarationIndex == FirstIndex(decls, LAMBDA d : d.id = id)
        imp == PutImporter(us, body.importer)
        ex == PutExporter(exs, body.exporter, imp.importerId)
        processedTariffs == PutItems(decls[declarationIndex], body, nth)
        \* { ...updatedData, id, items: processedTariffs }
        updated == [id |-> id,
                    importer |-> Reference(imp.importer),
                    exporter |-> Reference(ex.exporter),
                    valuation |-> body.valuation,
                    items |-> processedTariffs.items]
    IN  IF declarationIndex = 0
        THEN NotFound(us, exs, decls)
        ELSE IF imp.threw
        THEN Outcome(500, us, exs, decls)
        ELSE IF processedTariffs.threw
        THEN \* the users were written at line 268 or 282, the exporters not
             Outcome(500, imp.users, exs, decls)
        ELSE Outcome(200, imp.users, ex.exporters,
                     [decls EXCEPT ![declarationIndex] = updated])

\* ------------------------------------------------ DELETE /declarations/:id
DeleteDeclaration(us, exs, decls, id) ==
    Outcome(200, us, exs, SelectSeq(decls, LAMBDA d : d.id # id))

\* ---------------------------------------------------- DELETE /declarations
\* The validation that lets a value that is not an array through.
RejectedIdsArrayUnchecked(ids) == ids.kind = "missing"

\* if (!ids || !Array.isArray(ids) || ids.length === 0)
RejectedIds(ids) == ~IsArray(ids) \/ Len(ids.elems) = 0

\* deletedCount taken from the length of the requested list.
DeletedCountRequested(initialCount, remaining, ids) == Len(ids.elems)

\* initialCount - db.data.declarations.length
DeletedCount(initialCount, remaining, ids) == initialCount - Len(remaining)

DeleteDeclarations(us, exs, decls, body) ==
    LET ids == body.ids
        initialCount == Len(decls)
        remaining == SelectSeq(decls,
                               LAMBDA d : \A k \in DOMAIN ids.elems : ids.elems[k] # d.id)
    IN  IF RejectedIds(ids)
        THEN Outcome(400, us, exs, decls)
        ELSE [Outcome(200, us, exs, remaining)
                 EXCEPT !.deletedCount = DeletedCount(initialCount, remaining, ids)]

\* ---------------------------------------------- PUT /declarations/:id/tariffs
\* updatedTariffs.forEach(updated => ...): the item with the id of updated
\* is replaced by it where it stands, and updated is pushed when none has it.
RECURSIVE UpdateOrInsert(_, _)
UpdateOrInsert(items, updatedTariffs) ==
    IF updatedTariffs = <<>> THEN items
    ELSE LET updated == Head(updatedTariffs)
             existingIndex == FirstIndex(items, LAMBDA t : t.id = updated.id)
         IN  UpdateOrInsert(
                 IF existingIndex # 0
                 THEN [items EXCEPT ![existingIndex] = updated]
                 ELSE Append(items, updated),
                 Tail(updatedTariffs))

\* (declaration.items || []).filter(t => incomingMap.has(t.id)), then the
\* update-or-insert of every processed tariff.
ReplacedItems(items, updatedTariffs) ==
    UpdateOrInsert(
        SelectSeq(items,
                  LAMBDA t : \E k \in DOMAIN updatedTariffs : updatedTariffs[k].id = t.id),
        updatedTariffs)

PutTariffs(us, exs, decls, id, body, nth) ==
    LET tariffs == body.tariffs
        k == FirstIndex(decls, LAMBDA d : d.id = id)
        declaration == decls[k]
        updatedTariffs == ProcessedTariffs(tariffs.elems, declaration.valuation, nth)
    IN  IF ~IsArray(tariffs)
        THEN \* if (!tariffs || !Array.isArray(tariffs))
             Outcome(400, us, exs, decls)
        ELSE IF k = 0
        THEN NotFound(us, exs, decls)
        ELSE IF ~declaration.valuation.defined
        THEN \* declaration.valuation.netFreight of undefined: TypeError
             Outcome(500, us, exs, decls)
        ELSE IF updatedTariffs.threw
        THEN Outcome(500, us, exs, decls)
        ELSE Outcome(200, us, exs,
                     [decls EXCEPT ![k].items =
                          ReplacedItems(declaration.items, updatedTariffs.items)])

\* ------------------------------------------------------------- the requests
IdsOf(seq) == {seq[k].id : k \in DOMAIN seq}

\* The importer payloads a client sends: none; an empty object; a name and
\* a tin without id; an id, unknown to the store ("u9") or that of a stored
\* user, with or without a tin.
ImporterPayloads(us) ==
    {NoImporter} \cup
    [defined : {TRUE}, id : {Undefined}, name : {Undefined}, number : {Undefined}] \cup
    [defined : {TRUE}, id : {Undefined}, name : {"A"}, number : {"T1"}] \cup
    [defined : {TRUE}, id : {"u9"} \cup IdsOf(us), name : {Undefined},
     number : {Undefined, "T1"}]

ExporterPayloads(exs) ==
    {NoExporter} \cup
    [defined : {TRUE},
     id : {Undefined, "e9"} \cup IdsOf(exs),
     name : {Undefined, "X"},
     number : {Undefined, "T1"},
     address : {Undefined, "S"}]

\* The bodies of the reconciliation requests: every importer and exporter
\* payload, no valuation and no item.
Bodies(us, exs) ==
    [importer : ImporterPayloads(us), exporter : ExporterPayloads(exs),
     valuation : {NoValuation}, tariffs : {NoList}, items : {NoList},
     ids : {NoList}]

NoBody ==
    [importer |-> NoImporter, exporter |-> NoExporter, valuation |-> NoValuation,
     tariffs |-> NoList, items |-> NoList, ids |-> NoList]

NoRequest == [op |-> "none", id |-> Undefined, body |-> NoBody]

NoResponse == [status |-> 0, deletedCount |-> 0]

Stores == [users |-> users, exporters |-> exporters, declarations |-> declarations]

NoStores == [users |-> <<>>, exporters |-> <<>>, declarations |-> <<>>]

Respond(request, out) ==
    /\ served' = served + 1
    /\ users' = out.users
    /\ exporters' = out.exporters
    /\ declarations' = out.declarations
    /\ req' = request
    /\ res' = [status |-> out.status, deletedCount |-> out.deletedCount]
    /\ before' = Stores
    /\ UNCHANGED restVars

Create ==
    /\ req = NoRequest
    /\ served < MaxRequests
    /\ \E body \in Bodies(users, exporters) :
           Respond([op |-> "create", id |-> Undefined, body |-> body],
                   PostDeclarations(users, exporters, declarations, body, served + 1))
    /\ UNCHANGED allocVars

Update ==
    /\ req = NoRequest
    /\ served < MaxRequests
    /\ \E id \in IdsOf(declarations) \cup {"d9"} :
       \E body \in Bodies(users, exporters) :
           Respond([op |-> "update", id |-> id, body |-> body],
                   PutDeclaration(users, exporters, declarations, id, body,
                                  served + 1))
    /\ UNCHANGED allocVars

\* The response reaches the client.
Deliver ==
    /\ req # NoRequest
    /\ req' = NoRequest
    /\ res' = NoResponse
    /\ before' = NoStores
    /\ UNCHANGED <<users, exporters, declarations, served>>
    /\ UNCHANGED allocVars
    /\ UNCHANGED restVars

\* No document asked for, no handler in progress.
NoMasterBill == [mode |-> Undefined, packages |-> FALSE]

NoDocument == [threw |-> FALSE, assembled |-> FALSE]

NoTask ==
    [pc |-> "idle", id |-> Undefined, body |-> NoBody, declarationIndex |-> 0,
     imp |-> [importerId |-> Undefined, importer |-> NoImporter],
     snapshot |-> NoStores, status |-> 0]

RestIdle ==
    /\ masterBill = NoMasterBill
    /\ document = NoDocument
    /\ memory = NoStores
    /\ tasks = [t \in {"put", "delete"} |-> NoTask]

AllocIdle ==
    /\ totalAmount = Num(0)
    /\ weights = <<>>
    /\ count = 0
    /\ fpErr = [w \in 1..MaxWeight |-> 0]
    /\ called = "none"
    /\ result = [threw |-> FALSE, shares |-> <<>>]

Init ==
    /\ AllocIdle
    /\ RestIdle
    /\ users = <<>>
    /\ exporters = <<>>
    /\ declarations = <<>>
    /\ req = NoRequest
    /\ res = NoResponse
    /\ before = NoStores
    /\ served = 0

Next == Create \/ Update \/ Deliver

Spec == Init /\ [][Next]_vars

\* --------------------------------------- the requests about items and deletion
\* The valuation blocks a client sends: none; netCost missing or positive
\* with 0.03 of freight and 0.01 of insurance; a freight that does not parse;
\* a netCost that does not parse.
Valuations ==
    {NoValuation} \cup
    [defined : {TRUE}, netCost : {Missing, Amount(2 * 100)},
     netFreight : {Amount(2 * 3)}, netInsurance : {Amount(2 * 1)}] \cup
    [defined : {TRUE}, netCost : {Amount(2 * 100)},
     netFreight : {Invalid}, netInsurance : {Missing}] \cup
    [defined : {TRUE}, netCost : {Invalid},
     netFreight : {Amount(2 * 1)}, netInsurance : {Amount(2 * 1)}]

\* The item payloads: without id, a cost missing, not parsing, or 1, or a
\* cost of 2 with a note; under an id (one of known, or "i9") a cost of 2.
ItemPayloads(known) ==
    [id : {Undefined}, cost : {Missing, Invalid, Amount(1)}, note : {Undefined}] \cup
    [id : {Undefined}, cost : {Amount(2)}, note : {"n"}] \cup
    [id : known \cup {"i9"}, cost : {Amount(2)}, note : {Undefined}]

ItemLists(known) ==
    {NoList, NotAnArray} \cup
    {ArrayOf(elems) : elems \in UNION {[1..n -> ItemPayloads(known)] : n \in 0..MaxItems}}

ItemIdsOf(decls, id) ==
    UNION {IdsOf(decls[k].items) : k \in {j \in DOMAIN decls : decls[j].id = id}}

\* The importer of these requests is a new party every time.
NewParty == [defined |-> TRUE, id |-> Undefined, name |-> "A", number |-> "T1"]

CreateItems ==
    /\ req = NoRequest
    /\ served < MaxItemRequests
    /\ \E valuation \in Valuations, tariffs \in ItemLists({}) :
           LET body == [NoBody EXCEPT !.importer = NewParty,
                                      !.valuation = valuation,
                                      !.tariffs = tariffs]
           IN  Respond([op |-> "create", id |-> Undefined, body |-> body],
                       PostDeclarations(users, exporters, declarations, body,
                                        served + 1))
    /\ UNCHANGED allocVars

UpdateItems ==
    /\ req = NoRequest
    /\ served < MaxItemRequests
    /\ \E id \in IdsOf(declarations) \cup {"d9"} :
       \E valuation \in Valuations, items \in ItemLists(ItemIdsOf(declarations, id)) :
           LET body == [NoBody EXCEPT !.importer = NewParty,
                                      !.valuation = valuation,
                                      !.items = items]
           IN  Respond([op |-> "update", id |-> id, body |-> body],
                       PutDeclaration(users, exporters, declarations, id, body,
                                      served + 1))
    /\ UNCHANGED allocVars

ReplaceTariffs ==
    /\ req = NoRequest
    /\ served < MaxItemRequests
    /\ \E id \in IdsOf(declarations) \cup {"d9"} :
       \E tariffs \in ItemLists(ItemIdsOf(declarations, id)) :
           LET body == [NoBody EXCEPT !.tariffs = tariffs]
           IN  Respond([op |-> "replace", id |-> id, body |-> body],
                       PutTariffs(users, exporters, declarations, id, body,
                                  served + 1))
    /\ UNCHANGED allocVars

IdLists(decls) ==
    {NoList, NotAnArray} \cup
    {ArrayOf(elems) :
         elems \in UNION {[1..n -> IdsOf(decls) \cup {"d9"}] : n \in 0..MaxItems}}

BulkDelete ==
    /\ req = NoRequest
    /\ served < MaxItemRequests
    /\ \E ids \in IdLists(declarations) :
           LET body == [NoBody EXCEPT !.ids = ids]
           IN  Respond([op |-> "bulkDelete", id |-> Undefined, body |-> body],
                       DeleteDeclarations(users, exporters, declarations, body))
    /\ UNCHANGED allocVars

Delete ==
    /\ req = NoRequest
    /\ served < MaxItemRequests
    /\ \E id \in IdsOf(declarations) \cup {"d9"} :
           Respond([op |-> "delete", id |-> id, body |-> NoBody],
                   DeleteDeclaration(users, exporters, declarations, id))
    /\ UNCHANGED allocVars

\* A store that already holds one declaration, made by a create: two items,
\* the first with a note, charged in proportion to their costs.
SeedBody ==
    [NoBody EXCEPT
        !.importer = NewParty,
        !.valuation = [defined |-> TRUE, netCost |-> Amount(2 * 100),
                       netFreight |-> Amount(2 * 3), netInsurance |-> Amount(2 * 1)],
        !.tariffs = ArrayOf(<<[id |-> Undefined, cost |-> Amount(2), note |-> "n"],
                              [id |-> Undefined, cost |-> Amount(1),
                               note |-> Undefined]>>)]

Seeded == PostDeclarations(<<>>, <<>>, <<>>, SeedBody, 0)

InitItems ==
    /\ AllocIdle
    /\ RestIdle
    /\ users = Seeded.users
    /\ exporters = Seeded.exporters
    /\ declarations = Seeded.declarations
    /\ req = NoRequest
    /\ res = NoResponse
    /\ before = NoStores
    /\ served = 0

NextItems ==
    CreateItems \/ UpdateItems \/ ReplaceTariffs \/ BulkDelete \/ Delete \/ Deliver

SpecItems == InitItems /\ [][NextItems]_vars

\* ==================================================== structureDataForXml
\* A declaration as the assembler reads it: the embedded importer and
\* exporter with the fields the document shows, the bill number, and whether
\* the packages and valuation blocks, which the assembler reads without
\* guard, are there.  The items of the declaration, the containers and the
\* constant fields of the document are left out.
DescriptiveFields ==
    {"name", "address", "city", "state", "postalcode", "country", "phone"}

\* The value a descriptive field has when the exporter carries it.
FieldValue(f) ==
    CASE f = "name" -> "N"
      [] f = "address" -> "A"
      [] f = "city" -> "C"
      [] f = "state" -> "S"
      [] f = "postalcode" -> "Z"
      [] f = "country" -> "K"
      [] f = "phone" -> "P"

XmlExporter(defined, number, present) ==
    [defined |-> defined,
     number |-> number,
     name |-> IF "name" \in present THEN FieldValue("name") ELSE Undefined,
     address |-> IF "address" \in present THEN FieldValue("address") ELSE Undefined,
     city |-> IF "city" \in present THEN FieldValue("city") ELSE Undefined,
     state |-> IF "state" \in present THEN FieldValue("state") ELSE Undefined,
     postalcode |-> IF "postalcode" \in present THEN FieldValue("postalcode")
                    ELSE Undefined,
     country |-> IF "country" \in present THEN FieldValue("country") ELSE Undefined,
     phone |-> IF "phone" \in present THEN FieldValue("phone") ELSE Undefined]

\* The exporter block that carries the Number beside the descriptive fields.
ExporterBlockWithNumberToo(exporter) ==
    [Number |-> OrEmpty(exporter.number),
     Name |-> OrEmpty(exporter.name),
     Address |-> OrEmpty(exporter.address),
     City |-> OrEmpty(exporter.city),
     State |-> OrEmpty(exporter.state),
     PostalCode |-> OrEmpty(exporter.postalcode),
     Country |-> OrEmpty(exporter.country),
     Phone |-> OrEmpty(exporter.phone)]

\* Exporter: item.exporter?.number ? { Number } : { Name, Address, ... };
\* an exporter that is not there reads every field as undefined.
ExporterBlock(exporter) ==
    IF Truthy(exporter.number)
    THEN [Number |-> exporter.number]
    ELSE [Name |-> OrEmpty(exporter.name),
          Address |-> OrEmpty(exporter.address),
          City |-> OrEmpty(exporter.city),
          State |-> OrEmpty(exporter.state),
          PostalCode |-> OrEmpty(exporter.postalcode),
          Country |-> OrEmpty(exporter.country),
          Phone |-> OrEmpty(exporter.phone)]

\* One element of ConsolidatedItem.
ConsolidatedItem(item) ==
    [Importer |-> [Number |-> item.importer.number],
     Exporter |-> ExporterBlock(item.exporter),
     BillNumber |-> item.billNumber]

\* item.importer.number, item.packages.pkgCount and item.valuation.netCost
\* are read without guard, and so is masterBill.packages.pkgType: a
\* TypeError when the block is not there.
AssemblyThrows(consolidatedItems, mb) ==
    \/ ~mb.packages
    \/ \E k \in DOMAIN consolidatedItems :
           \/ ~consolidatedItems[k].importer.defined
           \/ ~consolidatedItems[k].packages
           \/ ~consolidatedItems[k].valuation

structureDataForXml(consolidatedItems, mb) ==
    IF AssemblyThrows(consolidatedItems, mb)
    THEN [threw |-> TRUE, assembled |-> FALSE]
    ELSE [threw |-> FALSE,
          assembled |-> TRUE,
          DischargePort |-> IF mb.mode = "SEA" THEN "KYGEC" ELSE "KYGCM",
          TransportMode |-> OrEmpty(mb.mode),
          ConsolidatedItem |->
              [k \in DOMAIN consolidatedItems |->
                  ConsolidatedItem(consolidatedItems[k])]]

\* ------------------------------------------------- the assembler, called once
\* The exporters of the input: none; with every descriptive field or with
\* none, under no tax number, an empty one, or "T1"; and, without tax number,
\* with one field only or with all fields but one.
FieldPatterns ==
    {DescriptiveFields \ {f} : f \in DescriptiveFields}
        \cup {{f} : f \in DescriptiveFields}

XmlExporters ==
    {XmlExporter(FALSE, Undefined, {})}
        \cup {XmlExporter(TRUE, number, present) :
                  number \in {Undefined, "", "T1"},
                  present \in {DescriptiveFields, {}}}
        \cup {XmlExporter(TRUE, Undefined, present) : present \in FieldPatterns}

\* The declarations of the input: complete, or without importer, packages
\* or valuation block.
XmlDeclarations ==
    [importer : {[defined |-> TRUE, number |-> "I1"]},
     exporter : XmlExporters, packages : {TRUE}, valuation : {TRUE}]
        \cup [importer : {[defined |-> FALSE, number |-> Undefined]},
              exporter : XmlExporters, packages : {TRUE}, valuation : {TRUE}]
        \cup [importer : {[defined |-> TRUE, number |-> "I1"]},
              exporter : XmlExporters, packages : {FALSE}, valuation : {TRUE}]
        \cup [importer : {[defined |-> TRUE, number |-> "I1"]},
              exporter : XmlExporters, packages : {TRUE}, valuation : {FALSE}]

\* The k-th declaration of the input carries the bill number Bk.
Billed(list) ==
    [k \in DOMAIN list |->
        [id |-> Uuid("d", k),
         billNumber |-> Uuid("B", k),
         importer |-> list[k].importer,
         exporter |-> list[k].exporter,
         packages |-> list[k].packages,
         valuation |-> list[k].valuation]]

MasterBills ==
    {[mode |-> "SEA", packages |-> TRUE],
     [mode |-> "AIR", packages |-> TRUE],
     [mode |-> Undefined, packages |-> FALSE]}

InitXml ==
    /\ AllocIdle
    /\ users = <<>>
    /\ exporters = <<>>
    /\ \E n \in 0..MaxConsolidated :
       \E list \in [1..n -> XmlDeclarations] : declarations = Billed(list)
    /\ req = NoRequest
    /\ res = NoResponse
    /\ before = NoStores
    /\ served = 0
    /\ masterBill \in MasterBills
    /\ document = NoDocument
    /\ memory = NoStores
    /\ tasks = [t \in {"put", "delete"} |-> NoTask]

Assemble ==
    /\ document = NoDocument
    /\ document' = structureDataForXml(declarations, masterBill)
    /\ UNCHANGED <<masterBill, concVars>>
    /\ UNCHANGED allocVars
    /\ UNCHANGED serverVars

NextXml == Assemble

SpecXml == InitXml /\ [][NextXml]_vars

\* ============================================ the handlers, await by await
\* Node runs one handler at a time and switches handlers at an await only.
\* users, exporters and declarations are users.json and db.json; memory is
\* usersDb.data and db.data, shared by every request in flight; tasks holds,
\* for one full update and one delete, the await it stands at and its
\* locals.  db.read() assigns the file's content to db.data when it
\* completes; db.write() serialises db.data when it is called and has
\* replaced the file when it completes.  A read or write may fail, and the
\* handler's catch then answers 500.
At(t, pc) == tasks[t].pc = pc

Goto(t, pc) == [tasks EXCEPT ![t].pc = pc]

\* res.status(status): the handler is over.
Ended(task, status) == [task EXCEPT !.pc = "done", !.status = status]

\* lines 285-390 of the full update: what follows the importer, up to the
\* call of db.write().  The exporter is resolved in db.data, the declaration
\* is read and assigned at declarationIndex, the index found at line 253.
PutAfterImporter(mem, task) ==
    LET ex == PutExporter(mem.exporters, task.body.exporter, task.imp.importerId)
        withExporter == [mem EXCEPT !.exporters = ex.exporters]
        inRange == task.declarationIndex <= Len(mem.declarations)
        processedTariffs ==
            PutItems(mem.declarations[task.declarationIndex], task.body, 1)
        updated == [id |-> task.id,
                    importer |-> Reference(task.imp.importer),
                    exporter |-> Reference(ex.exporter),
                    valuation |-> task.body.valuation,
                    items |-> processedTariffs.items]
        assigned == [withExporter EXCEPT
                        !.declarations[task.declarationIndex] = updated]
    IN  IF ~inRange
        THEN \* db.data.declarations[declarationIndex].items of undefined
             [memory |-> withExporter, task |-> Ended(task, 500)]
        ELSE IF processedTariffs.threw
        THEN [memory |-> withExporter, task |-> Ended(task, 500)]
        ELSE [memory |-> assigned,
              task |-> [task EXCEPT !.pc = "writeDb", !.snapshot = assigned]]

\* lines 253-283: the index, the 404, the importer, up to usersDb.write();
\* an importer whose id names no user is followed by the rest at once.
PutAfterReads(mem, task) ==
    LET declarationIndex ==
            FirstIndex(mem.declarations, LAMBDA d : d.id = task.id)
        imp == PutImporter(mem.users, task.body.importer)
        withUsers == [mem EXCEPT !.users = imp.users]
        found == [task EXCEPT
                     !.declarationIndex = declarationIndex,
                     !.imp = [importerId |-> imp.importerId,
                              importer |-> imp.importer]]
    IN  IF declarationIndex = 0
        THEN [memory |-> mem, task |-> Ended(task, 404)]
        ELSE IF imp.threw
        THEN [memory |-> mem, task |-> Ended(found, 500)]
        ELSE IF Truthy(imp.importerId)
        THEN [memory |-> withUsers,
              task |-> [found EXCEPT !.pc = "writeUsers", !.snapshot = withUsers]]
        ELSE PutAfterImporter(mem, found)

\* The bodies of the full update: an importer without id, one under the id
\* of a user, one under an id no user has, or none; no exporter or a new
\* one; no valuation or one; no item list or a list of one item.
ConcurrentBodies ==
    {[NoBody EXCEPT !.importer = importer, !.exporter = exporter,
                    !.valuation = valuation, !.items = items] :
        importer \in {NewParty,
                      [NewParty EXCEPT !.id = "u1"],
                      [NewParty EXCEPT !.id = "u9"],
                      NoImporter},
        exporter \in {NoExporter, [NoExporter EXCEPT !.defined = TRUE, !.name = "E"]},
        valuation \in {NoValuation,
                       [defined |-> TRUE, netCost |-> Amount(2 * 100),
                        netFreight |-> Amount(2 * 1),
                        netInsurance |-> Amount(2 * 1)]},
        items \in {NoList,
                   ArrayOf(<<[id |-> Undefined, cost |-> Amount(1),
                              note |-> Undefined]>>)}}

\* app.put('/declarations/:id'): the request arrives, db.read() is called.
PutArrives ==
    /\ At("put", "idle")
    /\ \E id \in IdsOf(declarations) \cup {"d9"}, body \in ConcurrentBodies :
           tasks' = [tasks EXCEPT
                        !["put"] = [NoTask EXCEPT
                                       !.pc = "readDb", !.id = id, !.body = body]]
    /\ UNCHANGED <<memory, xmlVars>>
    /\ UNCHANGED allocVars
    /\ UNCHANGED serverVars

\* line 250: await db.read() completes.
PutDbRead ==
    /\ At("put", "readDb")
    /\ memory' = [memory EXCEPT
                     !.declarations = declarations, !.exporters = exporters]
    /\ tasks' = Goto("put", "readUsers")
    /\ UNCHANGED xmlVars
    /\ UNCHANGED allocVars
    /\ UNCHANGED serverVars

\* line 251: await usersDb.read() completes; lines 253-283 follow.
PutUsersRead ==
    /\ At("put", "readUsers")
    /\ LET next == PutAfterReads([memory EXCEPT !.users = users], tasks["put"])
       IN  /\ memory' = next.memory
           /\ tasks' = [tasks EXCEPT !["put"] = next.task]
    /\ UNCHANGED xmlVars
    /\ UNCHANGED allocVars
    /\ UNCHANGED serverVars

\* line 268 or 282: await usersDb.write() completes; lines 285-390 follow.
PutUsersWritten ==
    /\ At("put", "writeUsers")
    /\ users' = tasks["put"].snapshot.users
    /\ LET next == PutAfterImporter(memory, tasks["put"])
       IN  /\ memory' = next.memory
           /\ tasks' = [tasks EXCEPT !["put"] = next.task]
    /\ UNCHANGED <<exporters, declarations, req, res, before, served>>
    /\ UNCHANGED xmlVars
    /\ UNCHANGED allocVars

\* line 390: await db.write() completes; line 391 answers 200.
PutDbWritten ==
    /\ At("put", "writeDb")
    /\ declarations' = tasks["put"].snapshot.declarations
    /\ exporters' = tasks["put"].snapshot.exporters
    /\ tasks' = [tasks EXCEPT !["put"] = Ended(@, 200)]
    /\ UNCHANGED <<users, req, res, before, served>>
    /\ UNCHANGED <<memory, xmlVars>>
    /\ UNCHANGED allocVars

\* A read or write of the full update rejects: lines 392-395 answer 500.
PutStoreFails ==
    /\ tasks["put"].pc \in {"readDb", "readUsers", "writeUsers", "writeDb"}
    /\ tasks' = [tasks EXCEPT !["put"] = Ended(@, 500)]
    /\ UNCHANGED <<memory, xmlVars>>
    /\ UNCHANGED allocVars
    /\ UNCHANGED serverVars

\* app.delete('/declarations/:id'): the request arrives, db.read() is called.
DeleteArrives ==
    /\ At("delete", "idle")
    /\ \E id \in IdsOf(declarations) \cup {"d9"} :
           tasks' = [tasks EXCEPT
                        !["delete"] = [NoTask EXCEPT !.pc = "readDb", !.id = id]]
    /\ UNCHANGED <<memory, xmlVars>>
    /\ UNCHANGED allocVars
    /\ UNCHANGED serverVars

\* line 401: await db.read() completes; line 402 filters db.data.declarations
\* and line 403 calls db.write().
DeleteDbRead ==
    /\ At("delete", "readDb")
    /\ LET filtered ==
               [memory EXCEPT
                   !.declarations =
                       SelectSeq(declarations,
                                 LAMBDA d : d.id # tasks["delete"].id),
                   !.exporters = exporters]
       IN  /\ memory' = filtered
           /\ tasks' = [tasks EXCEPT
                           !["delete"] =
                               [@ EXCEPT !.pc = "writeDb", !.snapshot = filtered]]
    /\ UNCHANGED xmlVars
    /\ UNCHANGED allocVars
    /\ UNCHANGED serverVars

\* line 403: await db.write() completes; line 404 answers 200.
DeleteDbWritten ==
    /\ At("delete", "writeDb")
    /\ declarations' = tasks["delete"].snapshot.declarations
    /\ exporters' = tasks["delete"].snapshot.exporters
    /\ tasks' = [tasks EXCEPT !["delete"] = Ended(@, 200)]
    /\ UNCHANGED <<users, req, res, before, served>>
    /\ UNCHANGED <<memory, xmlVars>>
    /\ UNCHANGED allocVars

\* A read or write of the delete rejects: lines 405-407 answer 500.
DeleteStoreFails ==
    /\ tasks["delete"].pc \in {"readDb", "writeDb"}
    /\ tasks' = [tasks EXCEPT !["delete"] = Ended(@, 500)]
    /\ UNCHANGED <<memory, xmlVars>>
    /\ UNCHANGED allocVars
    /\ UNCHANGED serverVars

\* The stores after n creates of the seed body: declarations d1 .. dn.
RECURSIVE StoredAfter(_)
StoredAfter(n) ==
    IF n = 0 THEN Outcome(201, <<>>, <<>>, <<>>)
    ELSE LET earlier == StoredAfter(n - 1)
         IN  PostDeclarations(earlier.users, earlier.exporters,
                              earlier.declarations, SeedBody, n)

\* The server has started (lines 72 and 77 have read the files) and holds
\* one to MaxStored declarations.
InitConcurrent ==
    /\ AllocIdle
    /\ \E n \in 1..MaxStored :
        /\ users = StoredAfter(n).users
        /\ exporters = StoredAfter(n).exporters
        /\ declarations = StoredAfter(n).declarations
    /\ req = NoRequest
    /\ res = NoResponse
    /\ before = Stores
    /\ served = 0
    /\ masterBill = NoMasterBill
    /\ document = NoDocument
    /\ memory = Stores
    /\ tasks = [t \in {"put", "delete"} |-> NoTask]

NextConcurrent ==
    \/ PutArrives \/ PutDbRead \/ PutUsersRead \/ PutUsersWritten
    \/ PutDbWritten \/ PutStoreFails
    \/ DeleteArrives \/ DeleteDbRead \/ DeleteDbWritten \/ DeleteStoreFails

SpecConcurrent == InitConcurrent /\ [][NextConcurrent]_vars

\* ------------------------------------------------- the allocator, called once
\* The amounts a caller can pass: a small range around zero, the two amounts
\* of the documented examples (100.00 and 30.00), and NaN.
Amounts ==
    {Num(h) : h \in (-MaxHalfCents)..MaxHalfCents}
        \cup {Num(2 * 10000), Num(2 * 3000), NaN}

WeightValues == {Num(w) : w \in 0..MaxWeight} \cup {NaN}

WeightSeqs == UNION {[1..n -> WeightValues] : n \in 0..MaxLen}

RoundingErrors == [1..MaxWeight -> {-1, 0, 1}]

NotCalled == [threw |-> FALSE, shares |-> <<>>]

InitAlloc ==
    /\ totalAmount \in Amounts
    /\ weights \in WeightSeqs
    /\ count = 0
    /\ fpErr = [w \in 1..MaxWeight |-> 0]
    /\ called = "none"
    /\ result = NotCalled
    /\ RestIdle
    /\ users = <<>>
    /\ exporters = <<>>
    /\ declarations = <<>>
    /\ req = NoRequest
    /\ res = NoResponse
    /\ before = NoStores
    /\ served = 0

CallProportional ==
    /\ called = "none"
    /\ \E err \in RoundingErrors :
        /\ \A w \in 1..MaxWeight :
               (\A i \in DOMAIN weights : WeightNums(weights)[i] # w) => err[w] = 0
        /\ fpErr' = err
        /\ result' = allocateProportionalToCents(totalAmount, weights, err)
    /\ called' = "proportional"
    /\ UNCHANGED <<totalAmount, weights, count>>
    /\ UNCHANGED serverVars
    /\ UNCHANGED restVars

CallEqually ==
    /\ called = "none"
    /\ \E n \in 0..MaxLen :
        /\ count' = n
        /\ result' = divideEquallyInCents(totalAmount, n)
    /\ called' = "equal"
    /\ UNCHANGED <<totalAmount, weights, fpErr>>
    /\ UNCHANGED serverVars
    /\ UNCHANGED restVars

NextAlloc == CallProportional \/ CallEqually

SpecAlloc == InitAlloc /\ [][NextAlloc]_vars

\* ===================================================== claims: the allocator
\* Reading a two-decimal string back as a number of cents.
DigitValue(ch) == CHOOSE d \in 0..9 : DigitChar[d + 1] = ch

RECURSIVE ParseDigits(_)
ParseDigits(s) ==
    IF s = <<>> THEN 0
    ELSE 10 * ParseDigits(SubSeq(s, 1, Len(s) - 1)) + DigitValue(s[Len(s)])

ParseCents(s) ==
    LET neg == Head(s) = "-"
        body == IF neg THEN Tail(s) ELSE s
        n == Len(body)
        magnitude == 100 * ParseDigits(SubSeq(body, 1, n - 3))
                     + ParseDigits(SubSeq(body, n - 1, n))
    IN  IF neg THEN -magnitude ELSE magnitude

SharesInCents == [i \in DOMAIN result.shares |-> ParseCents(result.shares[i])]

TotalCents == RoundToCents(totalAmount).v

WeightSum == SumSeq(WeightNums(weights))

ZeroString == <<"0", ".", "0", "0">>

\* The largest-remainder allocation in exact arithmetic.
ExactFloor(i) == (WeightNums(weights)[i] * TotalCents) \div WeightSum

ExactFracNumerator(i) == (WeightNums(weights)[i] * TotalCents) % WeightSum

ExactLeftover == TotalCents - SumSeq([i \in DOMAIN weights |-> ExactFloor(i)])

ServedBefore(j, i) ==
    \/ ExactFracNumerator(j) > ExactFracNumerator(i)
    \/ ExactFracNumerator(j) = ExactFracNumerator(i) /\ j < i

LargestRemainderShare(i) ==
    ExactFloor(i)
    + (IF Cardinality({j \in DOMAIN weights : ServedBefore(j, i)}) < ExactLeftover
       THEN 1 ELSE 0)

ProportionalRan == called = "proportional" /\ ~totalAmount.nan

EquallyRan == called = "equal" /\ ~totalAmount.nan

\* C1 (as stated): for every total amount and every sequence of non-negative
\* weights, the shares of allocateProportionalToCents sum, in cents, to
\* round(total * 100).
C1_ProportionalSumsToTotal ==
    ProportionalRan =>
        /\ ~result.threw
        /\ SumSeq(SharesInCents) = TotalCents

\* C1 (amended): the shares sum, in cents, to round(total * 100) whenever the
\* weights (invalid ones counting as zero) have a positive sum.
C1_ProportionalSumsToTotalPositiveWeights ==
    (ProportionalRan /\ WeightSum > 0) =>
        /\ ~result.threw
        /\ SumSeq(SharesInCents) = TotalCents

\* C1 witness: a proportional call with two positive weights in which a
\* leftover cent was given out on top of a floor, one share computed low.
C1_Witness ==
    /\ ProportionalRan
    /\ WeightSum > 0
    /\ Len(weights) >= 2
    /\ \E i \in DOMAIN weights : SharesInCents[i] > ExactFloor(i)
    /\ \E w \in DOMAIN fpErr : fpErr[w] = -1
    /\ SumSeq(SharesInCents) = TotalCents

\* C2: for every total amount and every count >= 1, the shares of
\* divideEquallyInCents sum, in cents, to round(total * 100).
C2_EqualSumsToTotal ==
    (EquallyRan /\ count >= 1) => SumSeq(SharesInCents) = TotalCents

\* C3: every share is the floor of its exact proportional cents, plus one
\* leftover cent for the shares with the largest fractional remainders, equal
\* remainders served lowest index first; no share gets more than one.
C3_LargestRemainderInInputOrder ==
    (ProportionalRan /\ WeightSum > 0 /\ TotalCents # 0) =>
        /\ ~result.threw
        /\ \A i \in DOMAIN weights : SharesInCents[i] = LargestRemainderShare(i)

\* C4: allocateProportionalToCents returns one share per weight, and every
\* share is "0.00" when the total rounds to zero cents or all weights are
\* zero (a missing or invalid weight counting as zero).
C4_OneSharePerWeightZeroWhenNothing ==
    called = "proportional" =>
        /\ ~result.threw
        /\ Len(result.shares) = Len(weights)
        /\ ( \/ (~totalAmount.nan /\ TotalCents = 0)
             \/ \A i \in DOMAIN weights : weights[i].nan \/ weights[i].v = 0 )
           => \A i \in DOMAIN weights : result.shares[i] = ZeroString

\* C4 witness: a non-zero total over several weights that are all zero or
\* invalid, one of them invalid, came back as all "0.00".
C4_Witness ==
    /\ called = "proportional"
    /\ ~totalAmount.nan /\ TotalCents # 0
    /\ Len(weights) >= 2
    /\ \E i \in DOMAIN weights : weights[i].nan
    /\ \A i \in DOMAIN weights : weights[i].nan \/ weights[i].v = 0
    /\ \A i \in DOMAIN weights : result.shares[i] = ZeroString

\* C5: divideEquallyInCents(total, count) returns count shares (none when
\* count = 0); share i is floor(totalCents / count) cents plus one cent for
\* the first (totalCents mod count) shares; 100.00 over 3 gives
\* 33.34, 33.33, 33.33.
C5_EqualSharesFirstAbsorbRemainder ==
    EquallyRan =>
        /\ Len(result.shares) = count
        /\ \A i \in 1..count :
               SharesInCents[i] =
                   (TotalCents \div count) + (IF i <= TotalCents % count THEN 1 ELSE 0)
        /\ (totalAmount = Num(2 * 10000) /\ count = 3) =>
               result.shares = << <<"3", "3", ".", "3", "4">>,
                                  <<"3", "3", ".", "3", "3">>,
                                  <<"3", "3", ".", "3", "3">> >>

\* ================================================ claims: the reconciliation
Succeeded == req.op \in {"create", "update"} /\ res.status \in {200, 201}

\* The declaration the request in flight stored.
TouchedDeclaration ==
    IF req.op = "create"
    THEN declarations[Len(declarations)]
    ELSE declarations[FirstIndex(declarations, LAMBDA d : d.id = req.id)]

\* The stored exporter k had the payload's tin and the resolved importer.
MatchedByTin(k) ==
    /\ before.exporters[k].tin = req.body.exporter.number
    /\ before.exporters[k].uid = TouchedDeclaration.importer.id

CreateWithKnownTin ==
    /\ req.op = "create"
    /\ res.status = 201
    /\ req.body.exporter.defined
    /\ ~Truthy(req.body.exporter.id)
    /\ Truthy(req.body.exporter.number)
    /\ \E k \in DOMAIN before.exporters : MatchedByTin(k)

C7_UnknownImporterIdCreatesOneParty ==
    ( /\ Succeeded
      /\ Truthy(req.body.importer.id)
      /\ req.body.importer.id \notin IdsOf(before.users) )
    => /\ Len(users) = Len(before.users) + 1
       /\ TouchedDeclaration.importer.id = users[Len(users)].id

NoIdImporterHandled ==
    /\ Succeeded
    /\ req.body.importer.defined
    /\ ~Truthy(req.body.importer.id)

\* C8: a create or full update (that finds its Declaration) whose importer
\* payload has no identifier appends exactly one Party, under an identifier
\* no stored Party had, and puts that identifier on the Declaration, whatever
\* names and tins are stored.
C8_NoIdImporterAlwaysNewParty ==
    NoIdImporterHandled =>
        /\ Len(users) = Len(before.users) + 1
        /\ SubSeq(users, 1, Len(before.users)) = before.users
        /\ users[Len(users)].id \notin IdsOf(before.users)
        /\ TouchedDeclaration.importer.id = users[Len(users)].id

\* C8 witness: a full update with an importer payload without id was handled
\* while a Party with the same name and the same tin was stored, and now two
\* Parties carry that name and tin.
C8_Witness ==
    /\ NoIdImporterHandled
    /\ req.op = "update"
    /\ \E k \in DOMAIN before.users :
        /\ before.users[k].name = req.body.importer.name
        /\ before.users[k].tin = req.body.importer.number
        /\ users[k] = before.users[k]
    /\ users[Len(users)].name = "A"
    /\ users[Len(users)].tin = "T1"
    /\ Len(users) = Len(before.users) + 1

\* C9: on the same Party and Exporter stores and the same importer and
\* exporter payload, a full update and a create leave the two stores with
\* the same records.
C9_UpdateResolvesLikeCreate ==
    \A body \in Bodies(users, exporters) :
        LET created == PostImporter(users, body.importer)
            updated == PutImporter(users, body.importer)
        IN  /\ created.users = updated.users
            /\ PostExporter(exporters, body.exporter, created.importerId).exporters
                   = PutExporter(exporters, body.exporter, updated.importerId).exporters

\* C10: no two Exporter records with a non-empty tin have the same tin and
\* the same owning importer.
C10_UniqueTinPerImporter ==
    \A i, j \in DOMAIN exporters :
        ( /\ i # j
          /\ Truthy(exporters[i].tin)
          /\ Truthy(exporters[i].uid) )
        => ~( /\ exporters[i].tin = exporters[j].tin
              /\ exporters[i].uid = exporters[j].uid )

\* A create, or a full update of a stored Declaration: the requests that
\* reconcile the importer and the exporter.
Reconciling ==
    \/ req.op = "create"
    \/ req.op = "update" /\ req.id \in IdsOf(before.declarations)

\* A payload with neither identifier, tin nor name.
BarePayload(party) ==
    /\ party.defined
    /\ ~Truthy(party.id)
    /\ ~Truthy(party.number)
    /\ ~Truthy(party.name)

\* C11: a create or full update whose importer (exporter) payload has neither
\* identifier, tin nor name succeeds, leaves the Party (Exporter) store as it
\* was, and stores a Declaration whose importer (exporter) reference has no
\* identifier.
C11_BarePayloadNotReconciled ==
    /\ (Reconciling /\ BarePayload(req.body.importer)) =>
           /\ Succeeded
           /\ users = before.users
           /\ ~Truthy(TouchedDeclaration.importer.id)
    /\ (Reconciling /\ BarePayload(req.body.exporter)) =>
           /\ Succeeded
           /\ exporters = before.exporters
           /\ ~Truthy(TouchedDeclaration.exporter.id)

\* The stored exporter the payload's identifier names, 0 when none.
ExporterNamedById ==
    IF Truthy(req.body.exporter.id)
    THEN FirstIndex(before.exporters, LAMBDA e : e.id = req.body.exporter.id)
    ELSE 0

ExporterIdFound == Succeeded /\ ExporterNamedById # 0

\* The importer of the request in flight was resolved to a stored Party.
ImporterResolved == TouchedDeclaration.importer.id \in IdsOf(users)

\* Field f of the named exporter changed only to the defined string the
\* payload carries for it.
OnlyOverwrittenByPayload(old, new, incoming) ==
    new # old => (incoming # Undefined /\ new = incoming)

\* C12: when the exporter payload names a stored Exporter by identifier, a
\* field of that Exporter changes only to the defined string the payload
\* carries for it, and its owning-importer link changes only from none to the
\* resolved importer; a full update moreover stores every defined string of
\* the payload and sets a missing link whenever the importer is resolved.
C12_ExporterFoundByIdMerged ==
    ExporterIdFound =>
        LET k == ExporterNamedById
            old == before.exporters[k]
            new == exporters[k]
            incoming == req.body.exporter
        IN  /\ new.id = old.id
            /\ OnlyOverwrittenByPayload(old.name, new.name, incoming.name)
            /\ OnlyOverwrittenByPayload(old.tin, new.tin, incoming.number)
            /\ OnlyOverwrittenByPayload(old.address, new.address, incoming.address)
            /\ new.uid # old.uid =>
                   /\ ~Truthy(old.uid)
                   /\ ImporterResolved
                   /\ new.uid = TouchedDeclaration.importer.id
            /\ req.op = "update" =>
                   /\ incoming.name # Undefined => new.name = incoming.name
                   /\ incoming.number # Undefined => new.tin = incoming.number
                   /\ incoming.address # Undefined => new.address = incoming.address
                   /\ (~Truthy(old.uid) /\ ImporterResolved)
                          => new.uid = TouchedDeclaration.importer.id
                   /\ TouchedDeclaration.exporter.id = old.id
                   /\ Len(exporters) = Len(before.exporters)

\* C12 witness: a full update named a stored Exporter that had no owning
\* importer and a tin but no address; the payload carried an address and no
\* tin; the Exporter now has the address, its old tin, and the resolved
\* importer as owner.
C12_Witness ==
    /\ ExporterIdFound
    /\ req.op = "update"
    /\ ~Truthy(before.exporters[ExporterNamedById].uid)
    /\ before.exporters[ExporterNamedById].tin = "T1"
    /\ before.exporters[ExporterNamedById].address = ""
    /\ req.body.exporter.number = Undefined
    /\ req.body.exporter.address = "S"
    /\ exporters[ExporterNamedById].address = "S"
    /\ exporters[ExporterNamedById].tin = "T1"
    /\ ImporterResolved
    /\ exporters[ExporterNamedById].uid = TouchedDeclaration.importer.id

\* ========================================== claims: items and deletion
\* The Declaration the request in flight names, as the request found it and
\* as it left it.
TargetBefore ==
    before.declarations[FirstIndex(before.declarations, LAMBDA d : d.id = req.id)]

TargetAfter ==
    declarations[FirstIndex(declarations, LAMBDA d : d.id = req.id)]

TargetStored == req.id \in IdsOf(before.declarations)

ReplaceDone == req.op = "replace" /\ res.status = 200

\* The stored item holds the incoming one: under its identifier when it has
\* one, under an identifier that is neither stored before nor supplied when
\* it has none, with the cost and the note of the incoming value.
HoldsIncoming(item, incoming, oldItems, list) ==
    /\ item.id = IF Truthy(incoming.id) THEN incoming.id ELSE item.id
    /\ ~Truthy(incoming.id) =>
           /\ item.id \notin IdsOf(oldItems)
           /\ item.id \notin IdsOf(list)
    /\ item.cost = incoming.cost
    /\ item.note = incoming.note

\* The one-to-one assignments of the incoming items to the stored ones.
Assignments(list, items) ==
    {f \in [DOMAIN list -> DOMAIN items] :
         \A a, b \in DOMAIN list : a # b => f[a] # f[b]}

\* C13: after an item-list replace the Declaration holds exactly the incoming
\* items: as many items as the list has, each incoming item stored under its
\* identifier (a fresh one when it has none) with the incoming fields, and no
\* stored item whose identifier the list does not carry.
C13_ReplaceLeavesExactlyIncoming ==
    ReplaceDone =>
        LET list == req.body.tariffs.elems
            oldItems == TargetBefore.items
            items == TargetAfter.items
        IN  /\ Len(items) = Len(list)
            /\ \E f \in Assignments(list, items) :
                   \A a \in DOMAIN list :
                       HoldsIncoming(items[f[a]], list[a], oldItems, list)
            /\ \A k \in DOMAIN oldItems :
                   oldItems[k].id \notin IdsOf(list)
                       => oldItems[k].id \notin IdsOf(items)

\* The identifiers of a list are pairwise distinct.
DistinctIds(list) ==
    \A a, b \in DOMAIN list : a # b => list[a].id # list[b].id

\* What the replace does when neither the stored items nor the supplied
\* identifiers repeat an identifier: it then leaves exactly the incoming items.
ReplaceOfDistinctLeavesIncoming ==
    ( /\ ReplaceDone
      /\ DistinctIds(TargetBefore.items)
      /\ DistinctIds(SelectSeq(req.body.tariffs.elems, LAMBDA t : Truthy(t.id))) )
    => C13_ReplaceLeavesExactlyIncoming

\* A string of two decimals, as the characters toFixed(2) gives.
Cents1 == <<"0", ".", "0", "1">>

Cents2 == <<"0", ".", "0", "2">>

Cents0 == <<"0", ".", "0", "0">>

UpdateDone == req.op = "update" /\ res.status = 200

\* The valuation figures a full update computes with: those of the request,
\* and those stored on the Declaration when the request has no valuation.
UpdateFigures ==
    IF req.body.valuation.defined THEN req.body.valuation ELSE TargetBefore.valuation

\* The shares of one total over the items, by the rule of the valuation's
\* netCost: in proportion to the costs when it is positive, equal otherwise.
SharesOf(figures, total, items) ==
    IF GreaterThanZero(ParseFloatOrZero(figures.netCost))
    THEN allocateProportionalToCents(
             ParseFloatOrZero(total),
             [k \in DOMAIN items |-> ParseFloatOrZero(items[k].cost)],
             ExactRounding).shares
    ELSE divideEquallyInCents(ParseFloatOrZero(total), Len(items)).shares

\* C14: a full update without item list keeps the Declaration's items, in
\* their order, with their identifiers, costs and notes, and gives them the
\* freight and insurance shares of the request's valuation figures.
C14_UpdateWithoutListRecomputes ==
    (UpdateDone /\ ~IsArray(req.body.items)) =>
        LET oldItems == TargetBefore.items
            items == TargetAfter.items
        IN  /\ Len(items) = Len(oldItems)
            /\ \A k \in DOMAIN oldItems :
                /\ items[k].id = oldItems[k].id
                /\ items[k].cost = oldItems[k].cost
                /\ items[k].note = oldItems[k].note
                /\ items[k].freight
                       = SharesOf(UpdateFigures, UpdateFigures.netFreight, oldItems)[k]
                /\ items[k].insurance
                       = SharesOf(UpdateFigures, UpdateFigures.netInsurance, oldItems)[k]

\* C14 witness: a full update without item list and with a valuation of 0.01
\* of freight has changed the freight of two stored items from 0.02 and 0.01
\* to 0.01 and 0.00, under the same identifiers.
C14_Witness ==
    /\ UpdateDone
    /\ ~IsArray(req.body.items)
    /\ req.body.valuation.defined
    /\ req.body.valuation.netFreight = Amount(2 * 1)
    /\ Len(TargetBefore.items) = 2
    /\ TargetBefore.items[1].freight = Cents2
    /\ TargetBefore.items[2].freight = Cents1
    /\ Len(TargetAfter.items) = 2
    /\ TargetAfter.items[1].freight = Cents1
    /\ TargetAfter.items[2].freight = Cents0
    /\ TargetAfter.items[1].id = TargetBefore.items[1].id
    /\ TargetAfter.items[2].id = TargetBefore.items[2].id

\* C15: a full update with an explicit item list, of any length, leaves the
\* Declaration with the items of that list, in the order of the list, each
\* under its supplied or a generated identifier, and nothing else.
C15_UpdateWithListStoresList ==
    (UpdateDone /\ IsArray(req.body.items)) =>
        LET list == req.body.items.elems
            items == TargetAfter.items
        IN  /\ Len(items) = Len(list)
            /\ \A k \in DOMAIN list :
                   HoldsIncoming(items[k], list[k], TargetBefore.items, list)

CreateDone == req.op = "create" /\ res.status = 201

CreateWithItems ==
    /\ CreateDone
    /\ IsArray(req.body.tariffs)
    /\ Len(req.body.tariffs.elems) > 0

\* C16: a create with a non-empty item list stores one item per incoming
\* item, in order; the freight (insurance) shares are the proportional
\* allocation of netFreight (netInsurance) over the costs when netCost > 0
\* and the equal split otherwise; an item keeps the identifier it supplies
\* and gets a generated one when it supplies none.
C16_CreateAllocatesByNetCost ==
    CreateWithItems =>
        LET list == req.body.tariffs.elems
            figures == req.body.valuation
            items == TouchedDeclaration.items
        IN  /\ Len(items) = Len(list)
            /\ \A k \in DOMAIN list :
                /\ HoldsIncoming(items[k], list[k], <<>>, list)
                /\ items[k].freight = SharesOf(figures, figures.netFreight, list)[k]
                /\ items[k].insurance = SharesOf(figures, figures.netInsurance, list)[k]

\* C16 witness: a create with netCost > 0, 0.03 of freight and two items of
\* costs 1 and 2, the second under a supplied identifier, has stored the
\* freights 0.01 and 0.02, the first item under a generated identifier.
C16_Witness ==
    /\ CreateWithItems
    /\ GreaterThanZero(ParseFloatOrZero(req.body.valuation.netCost))
    /\ req.body.valuation.netFreight = Amount(2 * 3)
    /\ Len(req.body.tariffs.elems) = 2
    /\ req.body.tariffs.elems[1].cost = Amount(1)
    /\ ~Truthy(req.body.tariffs.elems[1].id)
    /\ req.body.tariffs.elems[2].cost = Amount(2)
    /\ req.body.tariffs.elems[2].id = "i9"
    /\ TouchedDeclaration.items[1].freight = Cents1
    /\ TouchedDeclaration.items[2].freight = Cents2
    /\ Truthy(TouchedDeclaration.items[1].id)
    /\ TouchedDeclaration.items[2].id = "i9"

BulkDeleteDone == req.op = "bulkDelete" /\ res.status = 200

Requested == {req.body.ids.elems[k] : k \in DOMAIN req.body.ids.elems}

\* C17: a bulk delete removes the stored Declarations whose identifier is
\* requested and no other, leaves the others as they were and in their
\* order, and reports as deletedCount the number of Declarations removed:
\* the size before minus the size after, which is the number of stored
\* Declarations the request names.
C17_BulkDeleteRemovesRequested ==
    BulkDeleteDone =>
        /\ declarations
               = SelectSeq(before.declarations, LAMBDA d : d.id \notin Requested)
        /\ res.deletedCount = Len(before.declarations) - Len(declarations)
        /\ res.deletedCount
               = Cardinality({k \in DOMAIN before.declarations :
                                  before.declarations[k].id \in Requested})
        /\ users = before.users
        /\ exporters = before.exporters

\* C17 witness: a bulk delete that names a stored Declaration and an
\* identifier that is not stored has removed one of two Declarations and
\* reported deletedCount = 1.
C17_Witness ==
    /\ BulkDeleteDone
    /\ Len(req.body.ids.elems) = 2
    /\ "d9" \in Requested
    /\ Len(before.declarations) = 2
    /\ Len(declarations) = 1
    /\ declarations[1] \in {before.declarations[1], before.declarations[2]}
    /\ declarations[1].id \notin Requested
    /\ res.deletedCount = 1

StoresUnchanged ==
    /\ users = before.users
    /\ exporters = before.exporters
    /\ declarations = before.declarations

\* C18: a full update or an item-list replace that names an identifier no
\* stored Declaration has ends in the not-found outcome and leaves the three
\* stores as they were.
C18_UnknownTargetNotFound ==
    (req.op \in {"update", "replace"} /\ ~TargetStored) =>
        /\ res.status = 404
        /\ StoresUnchanged

\* C18 as the handlers do it: the item-list replace validates its payload
\* before it looks the Declaration up, so it is a replace that carries an
\* item array that ends in the not-found outcome.
C18_UnknownTargetNotFoundWhenWellFormed ==
    ( /\ req.op \in {"update", "replace"}
      /\ ~TargetStored
      /\ req.op = "replace" => IsArray(req.body.tariffs) )
    => /\ res.status = 404
       /\ StoresUnchanged

\* C18 witness: an item-list replace with an item array, sent for an
\* identifier that is not stored while a Declaration is, ended with 404.
C18_Witness ==
    /\ req.op = "replace"
    /\ IsArray(req.body.tariffs)
    /\ Len(req.body.tariffs.elems) > 0
    /\ ~TargetStored
    /\ Len(before.declarations) > 0
    /\ res.status = 404
    /\ StoresUnchanged

\* C19: a bulk delete whose identifier list, and an item-list replace whose
\* item list, is missing or not an array, ends in the validation outcome and
\* leaves the stores as they were.
C19_MalformedListRejected ==
    ( \/ req.op = "bulkDelete" /\ ~IsArray(req.body.ids)
      \/ req.op = "replace" /\ ~IsArray(req.body.tariffs) )
    => /\ res.status = 400
       /\ StoresUnchanged

\* C19 witness: an item-list replace whose tariffs value is not an array,
\* sent for a stored Declaration that has items, ended with 400 and the
\* items are still there.
C19_Witness ==
    /\ req.op = "replace"
    /\ req.body.tariffs = NotAnArray
    /\ TargetStored
    /\ Len(TargetBefore.items) > 0
    /\ res.status = 400
    /\ TargetAfter.items = TargetBefore.items

\* A numeric field that is missing or does not parse.
Defaulted(x) == x.kind # "number"

\* The field as the number it stands for, zero when missing or invalid.
AsZero(x) == IF Defaulted(x) THEN Amount(0) ELSE x

FiguresAsZero(figures) ==
    [defined |-> TRUE,
     netCost |-> AsZero(figures.netCost),
     netFreight |-> AsZero(figures.netFreight),
     netInsurance |-> AsZero(figures.netInsurance)]

CostsAsZero(list) == [k \in DOMAIN list |-> [list[k] EXCEPT !.cost = AsZero(@)]]

\* Some cost of the list, or some amount of the valuation, is missing or
\* invalid; a valuation that is not there has every amount missing.
SomeDefaulted(figures, list) ==
    \/ Defaulted(figures.netCost)
    \/ Defaulted(figures.netFreight)
    \/ Defaulted(figures.netInsurance)
    \/ \E k \in DOMAIN list : Defaulted(list[k].cost)

\* C20: a create, a full update or an item-list replace with a missing or
\* invalid cost or valuation amount (or no valuation block) does not end in
\* an error outcome, and a create gives its items the shares it would give
\* with zero in place of each such value.
C20_MissingOrInvalidIsZero ==
    /\ ( /\ req.op = "create"
         /\ SomeDefaulted(req.body.valuation, req.body.tariffs.elems) )
       => /\ res.status = 201
          /\ \A k \in DOMAIN req.body.tariffs.elems :
                 LET figures == FiguresAsZero(req.body.valuation)
                     list == CostsAsZero(req.body.tariffs.elems)
                 IN  /\ TouchedDeclaration.items[k].freight
                            = SharesOf(figures, figures.netFreight, list)[k]
                     /\ TouchedDeclaration.items[k].insurance
                            = SharesOf(figures, figures.netInsurance, list)[k]
    /\ ( /\ req.op = "update"
         /\ TargetStored
         /\ SomeDefaulted(UpdateFigures,
                          IF IsArray(req.body.items) THEN req.body.items.elems
                          ELSE TargetBefore.items) )
       => res.status = 200
    /\ ( /\ req.op = "replace"
         /\ TargetStored
         /\ IsArray(req.body.tariffs)
         /\ SomeDefaulted(TargetBefore.valuation, req.body.tariffs.elems) )
       => res.status = 200

\* ==================================================== claims: the document
DescriptiveElements ==
    {"Name", "Address", "City", "State", "PostalCode", "Country", "Phone"}

\* The text of a descriptive element: the exporter's field, empty when the
\* exporter does not carry it.
TextOf(x) == IF x \in {Undefined, Null} THEN "" ELSE x

\* C21: the assembled document has one consolidated item per input
\* Declaration, in input order; the exporter block of an item whose
\* Declaration's exporter has a tax number holds the Number and nothing
\* else, and otherwise holds Name, Address, City, State, PostalCode, Country
\* and Phone, each the exporter's field or the empty string, and no Number.
C21_ExporterBlockByTaxNumber ==
    document.assembled =>
        /\ Len(document.ConsolidatedItem) = Len(declarations)
        /\ \A k \in DOMAIN declarations :
            LET exporter == declarations[k].exporter
                block == document.ConsolidatedItem[k].Exporter
            IN  /\ document.ConsolidatedItem[k].BillNumber = declarations[k].billNumber
                /\ IF exporter.number \notin {Undefined, Null, ""}
                   THEN /\ DOMAIN block = {"Number"}
                        /\ block.Number = exporter.number
                   ELSE /\ DOMAIN block = DescriptiveElements
                        /\ block.Name = TextOf(exporter.name)
                        /\ block.Address = TextOf(exporter.address)
                        /\ block.City = TextOf(exporter.city)
                        /\ block.State = TextOf(exporter.state)
                        /\ block.PostalCode = TextOf(exporter.postalcode)
                        /\ block.Country = TextOf(exporter.country)
                        /\ block.Phone = TextOf(exporter.phone)

\* C21 witness: a document was assembled from two Declarations, the first
\* with the tax number T1, the second without tax number and without city;
\* its items are B1 with the Number block and B2 with the descriptive block
\* whose City is empty.
C21_Witness ==
    /\ document.assembled
    /\ Len(declarations) = 2
    /\ declarations[1].exporter.number = "T1"
    /\ declarations[2].exporter.number = Undefined
    /\ declarations[2].exporter.city = Undefined
    /\ declarations[2].exporter.name = "N"
    /\ document.ConsolidatedItem[1].BillNumber = "B1"
    /\ document.ConsolidatedItem[1].Exporter = [Number |-> "T1"]
    /\ document.ConsolidatedItem[2].BillNumber = "B2"
    /\ document.ConsolidatedItem[2].Exporter.City = ""
    /\ document.ConsolidatedItem[2].Exporter.Name = "N"

\* ==================================================== claims: the shares sum
\* The shares of the items under one field add up, in cents, to the figure
\* rounded to cents; a figure that is missing or invalid stands for zero,
\* and a share that is not a number adds up to nothing.
SharesSumTo(items, field, figure) ==
    /\ \A k \in DOMAIN items : items[k][field] # <<"N", "a", "N">>
    /\ SumSeq([k \in DOMAIN items |-> ParseCents(items[k][field])])
           = RoundToCents(ParseFloatOrZero(AsZero(figure))).v

\* C23: after any sequence of creates, full updates and item-list replaces,
\* the freight of the items of every stored Declaration that has an item
\* adds up, in cents, to the netFreight of its valuation rounded to cents,
\* and the insurance of its items to its netInsurance.
C23_StoredSharesSumToValuation ==
    \A d \in DOMAIN declarations :
        Len(declarations[d].items) >= 1 =>
            /\ SharesSumTo(declarations[d].items, "freight",
                           declarations[d].valuation.netFreight)
            /\ SharesSumTo(declarations[d].items, "insurance",
                           declarations[d].valuation.netInsurance)

\* ==================================================== claims: concurrency
\* The Declarations the server started with that neither the full update
\* nor the delete in flight names.
Bystanders ==
    {k \in DOMAIN before.declarations :
        /\ before.declarations[k].id # tasks["put"].id
        /\ before.declarations[k].id # tasks["delete"].id}

\* C22: under every interleaving of a full update of Declaration X with a
\* delete at their store awaits, every stored Declaration with another
\* identifier (and not the one being deleted) stays stored exactly once and
\* as it was, and no identifier is stored twice.
C22_UpdateTouchesOnlyItsTarget ==
    /\ \A k \in Bystanders :
           \E j \in DOMAIN declarations :
               /\ declarations[j] = before.declarations[k]
               /\ \A i \in DOMAIN declarations :
                      declarations[i].id = declarations[j].id => i = j
    /\ \A i, j \in DOMAIN declarations :
           declarations[i].id = declarations[j].id => i = j

\* ==================================================== claims: failures
\* C24: a full update that ends in the generic failure outcome, with no
\* other request about, leaves users.json and db.json as they were before
\* the request.
C24_FailedUpdateCommitsNothing ==
    (/\ At("put", "done")
     /\ tasks["put"].status = 500
     /\ At("delete", "idle")) =>
        /\ users = before.users
        /\ exporters = before.exporters
        /\ declarations = before.declarations

====
